---- MODULE Spec2Model ----
(***************************************************************************)
(* Model of the APIG signature-association resource                        *)
(* (resource_huaweicloud_apig_signature_associate.go): the Create, Update  *)
(* and Delete operations, the bind / unbind reconciliations they run       *)
(* (one mutating call, then resource.StateChangeConf.WaitForStateContext   *)
(* polling a ListBind refresh function), and the remote APIG service that  *)
(* makes an accepted bind or unbind visible some time later, or never.     *)
(*                                                                         *)
(* Time is counted in ticks of 100 ms and runs only inside a wait; every   *)
(* other call is instantaneous.                                            *)
(*                                                                         *)
(* Two smaller programs have a specification of their own, each over its   *)
(* own variables: the import of the association (ImportSpec) and the       *)
(* update of the SecMaster alert rule (AlertSpec).  The SWR image-triggers *)
(* data source is not modelled: the repository holds its acceptance test   *)
(* only, not its code.                                                     *)
(***************************************************************************)
EXTENDS Integers, Sequences, FiniteSets, TLC

\* ------------------------------------------------------------- bounds

\* Number of publish IDs the configuration and the remote service know.
MaxPublish == 2
\* Number of operation timeouts (d.Timeout) explored: 2 s, 4 s, 6 s, ...
MaxTimeoutSteps == 4
\* Longest import ID given to "terraform import", in characters.
MaxIdLen == 4
\* Longest instance_id and signature_id of a configuration, in characters.
MaxPartLen == 2
\* Most attributes of the alert rule one update changes.
MaxChanged == 2

\* ---------------------------------------------------------- constants

\* time.Second, in ticks of 100 ms.
Second == 10
\* StateChangeConf.MinTimeout: 2 * time.Second.
MinTimeout == 2 * Second
\* WaitForStateContext: the first wait after the first refresh, 100 ms.
FirstWait == Second \div 10
\* WaitForStateContext: a computed wait is capped at 10 s.
MaxWait == 10 * Second
\* WaitForStateContext: refreshGracePeriod, 30 s.
RefreshGracePeriod == 30 * Second
\* How far one step lets a refresh call in flight advance the clock.
CallStep == 2 * Second

PublishIds == 1..MaxPublish
\* The bind ID the service gives the binding of publish ID p.
BindIdOf(p) == <<"bind", p>>
BindIdSet == {BindIdOf(p) : p \in PublishIds}
\* Errors of the transport client (golangsdk): a 404 and any other.
ApiErrors == {"e404", "e500"}
\* The error of cfg.ApigV2Client / cfg.NewServiceClient.
ClientError == <<"no client">>
\* The timeouts an operation may be configured with.
Timeouts == {2 * t * Second : t \in 1..MaxTimeoutSteps}

NoErr == <<>>

\* ------------------------------------------------------------ helpers

Min(a, b) == IF a < b THEN a ELSE b

RECURSIVE SetToSeq(_)
\* utils.ExpandToStringListBySet: the elements of a set as a list.
SetToSeq(S) ==
    IF S = {} THEN <<>>
    ELSE LET x == CHOOSE y \in S : \A z \in S : y <= z
         IN <<x>> \o SetToSeq(S \ {x})

\* Every list of distinct bindings the service can hold.
BindingLists ==
    {s \in UNION {[1..n -> PublishIds] : n \in 0..MaxPublish} :
        \A i, j \in DOMAIN s : i /= j => s[i] /= s[j]}
Binding(p) == [BindId |-> BindIdOf(p), PublishId |-> p]
BindingSeq(s) == [i \in DOMAIN s |-> Binding(s[i])]

\* utils.StrSliceContains
StrSliceContains(b, v) == \E i \in DOMAIN b : b[i] = v

\* utils.StrSliceContainsAnother: whether list b holds every element of s.
StrSliceContainsAnother(b, s) ==
    \/ Len(s) < 1
    \/ \A i \in DOMAIN s : StrSliceContains(b, s[i])

flattenDropsLast(apiList) == [i \in 1..(Len(apiList) - 1) |-> apiList[i].PublishId]
\* flattenApiPublishIdsForSignature
flattenApiPublishIdsForSignature(apiList) ==
    IF Len(apiList) < 1 THEN <<>>
    ELSE [i \in DOMAIN apiList |-> apiList[i].PublishId]

ListBindAnswersNoRead(bindings) ==
    {[err |-> NoErr, body |-> <<>>]} \cup {[err |-> <<e>>, body |-> <<>>] : e \in ApiErrors}
\* buildSignBindApiListOpts + signs.ListBind: what one list call may answer.
ListBindAnswers(bindings) ==
    {[err |-> NoErr, body |-> bindings]}
        \cup {[err |-> <<e>>, body |-> <<>>] : e \in ApiErrors}

\* signatureBindingRefreshFunc, given the answer of its ListBind call.
signatureBindingRefreshFunc(ans, publishIds) ==
    IF ans.err /= NoErr THEN [resp |-> ans.body, state |-> "", err |-> ans.err]
    ELSE IF StrSliceContainsAnother(flattenApiPublishIdsForSignature(ans.body),
                                    publishIds)
         THEN [resp |-> ans.body, state |-> "COMPLETED", err |-> NoErr]
         ELSE [resp |-> ans.body, state |-> "PENDING", err |-> NoErr]

\* signatureUnbindingRefreshFunc, given the answer of its ListBind call.
signatureUnbindingRefreshFunc(ans, bandId) ==
    IF ans.err /= NoErr THEN [resp |-> ans.body, state |-> "", err |-> ans.err]
    ELSE IF \E i \in DOMAIN ans.body : ans.body[i].BindId = bandId
         THEN [resp |-> ans.body, state |-> "PENDING", err |-> NoErr]
         ELSE [resp |-> ans.body, state |-> "COMPLETED", err |-> NoErr]

\* ------------------------------------------- WaitForStateContext pieces

InitialWaitLate == MinTimeout
\* "start with 0 delay for the first ever request"
InitialWait == 0

NextWaitNoFloor(w) == IF w * 2 > MaxWait THEN MaxWait ELSE w * 2
NextWaitNoBackoff(w) == MinTimeout
\* The wait before the next refresh: doubled, at least MinTimeout, at most 10 s
\* (PollInterval is not set).
NextWait(w) ==
    IF w * 2 < MinTimeout THEN MinTimeout
    ELSE IF w * 2 > MaxWait THEN MaxWait
    ELSE w * 2

DeadlineEarly(t) == t - Second
DeadlineLate(t) == t + Second
\* time.After(conf.Timeout), counted from the start of the wait.
Deadline(t) == t

ClassifyRetryErrors(res) ==
    IF res.err = NoErr /\ res.state = "COMPLETED" THEN "done" ELSE "pending"
\* What the refresh loop does with a refresh result: an error ends it, a state
\* in Target ("COMPLETED") ends it with Done, a state in Pending continues.
Classify(res) ==
    IF res.err /= NoErr THEN "error"
    ELSE IF res.state = "COMPLETED" THEN "done"
    ELSE IF res.state = "PENDING" THEN "pending"
    ELSE "unexpected"

AfterPendingRetry(kind) == kind
\* Where the reconciling function stands after a PENDING refresh result: still
\* in its wait (the mutating call is not issued again).
AfterPending(kind) == "wait"

\* TimeoutError{LastError, LastState, Timeout, ExpectedState}
TimeoutError(lastState, lastError, t) ==
    <<"timeout while waiting for state to become 'COMPLETED'", lastState, t, lastError>>
ContextErrorNone == NoErr
\* ctx.Err()
ContextError == <<"context canceled">>

IsTimeoutError(e) ==
    Len(e) = 4 /\ e[1] = "timeout while waiting for state to become 'COMPLETED'"

\* -------------------------------------------------------------- state

VARIABLES
    op,          \* the resource operation running: "none", "create", "update", "delete"
    pc,          \* its position
    ctxDone,     \* whether the caller's context has been cancelled
    newIds,      \* publish_ids of the configuration
    oldIds,      \* publish_ids of the prior state (Update's GetChange)
    timeout,     \* d.Timeout(...) of the operation
    id,          \* d.Id(): "" or "instance/signature"
    stateIds,    \* publish_ids of the state, as last written by d.Set
    diags,       \* what the operation returned (at pc = "done")
    remote,      \* the bindings the service lists (ListBind's body)
    pendBind,    \* publish IDs whose bind is accepted and not yet listed
    pendUnbind,  \* bind IDs whose unbind is accepted and still listed
    rkind,       \* the reconciliation running: "none", "bind", "unbind"
    rPublish,    \* opts.PublishIds of bindSignatureToApis
    rmList,      \* rmList of unbindSignatureFromApis
    bindIds,     \* bindIds of unbindSignatureFromApis
    bandIdx,     \* index of bandId in bindIds
    err,         \* the error the reconciling function returned
    wst,         \* the wait: "none", "sleep" (refresh loop in its timer), "inflight" (Refresh running)
    wait,        \* the refresh loop's wait
    elapsed,     \* ticks since the wait began
    timerAt,     \* when the refresh loop's timer fires
    graceOn,     \* the timeout fired with a Refresh in flight: grace period
    lastState,   \* lastResult.State
    hist         \* observations of the current reconciliation and operation

\* resourceSignatureAssociateImportState
VARIABLES
    impPc,       \* "idle", "set" (d.Id() given), "imported", "rejected"
    importedId,  \* d.Id(), a sequence of characters
    impCfg,      \* <<instance_id, signature_id>> of the Create that made the ID, or <<>>
    impAttrs,    \* <<instance_id, signature_id>> as set by d.Set, or <<>>
    impErr       \* the error returned

\* resourceAlertRuleUpdate
VARIABLES
    alPc,        \* "idle", "put", "status", "read", "done", "panic"
    alChanged,   \* the attributes d.HasChange reports as changed
    alPlanned,   \* status of the plan Update was called with
    alClient,    \* Update made its client
    alStatus,    \* d.Get("status")
    alCalls,     \* the requests issued, in order
    alDiags      \* what the operation returned

apigVars == <<op, pc, ctxDone, newIds, oldIds, timeout, id, stateIds, diags, remote,
              pendBind, pendUnbind, rkind, rPublish, rmList, bindIds, bandIdx, err,
              wst, wait, elapsed, timerAt, graceOn, lastState, hist>>
importVars == <<impPc, importedId, impCfg, impAttrs, impErr>>
alertVars == <<alPc, alChanged, alPlanned, alClient, alStatus, alCalls, alDiags>>
\* What the operations of the signature association leave alone.
otherVars == <<importVars, alertVars>>

vars == <<apigVars, importVars, alertVars>>

inputVars == <<newIds, oldIds, timeout>>
remoteVars == <<remote, pendBind, pendUnbind>>
waitVars == <<wst, wait, elapsed, timerAt, graceOn, lastState>>
unbindVars == <<rmList, bindIds, bandIdx>>
dataVars == <<id, stateIds, diags>>

\* Where the count of the ticks spent in earlier waits stops.
PollTimeCap == MinTimeout

\* Observations of one reconciliation (reset when it begins).
NewRecon ==
    [mutCalls |-> 0,        \* signs.Bind / signs.Unbind calls issued
     mutFailed |-> FALSE,   \* the mutating call returned an error
     polls |-> 0,           \* refresh-function calls started
     returned |-> 0,        \* refresh-function calls that returned to the wait
     pendSeen |-> 0,        \* of them, those that returned PENDING
     pollErrAt |-> 0,       \* the call that returned an error, or 0
     doneAt |-> 0,          \* the call that returned COMPLETED, or 0
     lastRet |-> -1,        \* when the last refresh call returned
     gaps |-> {},           \* ticks from each return to the next call
     sleeps |-> 0,          \* timer sleeps of the refresh loop
     slow |-> FALSE,        \* some refresh call took time to return
     raced |-> FALSE,       \* the timeout fired with the refresh timer due
     lastRefresh |-> <<>>,  \* <<result of the last refresh call>>
     outcome |-> "none",    \* "Completed", "TimedOut", "Failed"
     endedAt |-> -1]        \* elapsed ticks of the wait when it returned

\* Observations of the operation.
NewHist ==
    [r |-> NewRecon,
     failure |-> NoErr,     \* <<error>> of the first failed reconciliation
     failKind |-> "none",   \* its outcome
     afterFail |-> {},      \* steps the operation took after that failure
     recons |-> 0,          \* reconciliations begun
     lists |-> 0,           \* ListBind calls of unbindSignatureFromApis itself
     listResp |-> <<>>,     \* <<body of its ListBind response>>
     unbinds |-> <<>>,      \* the bind IDs signs.Unbind was called on, in order
     absent |-> {},         \* bind IDs a refresh call found absent after their Unbind
     binds |-> <<>>,        \* the PublishIds of each signs.Bind call, in order
     unbindErr |-> FALSE,   \* unbindSignatureFromApis returned an error
     reads |-> 0,           \* calls of resourceSignatureAssociateRead
     pollTime |-> 0,        \* ticks the earlier waits of unbindSignatureFromApis took at
                            \* least: counted up to PollTimeCap, and not those of a wait
                            \* in which a refresh call took time to return
     abandoned |-> 0,       \* refresh calls still in flight when their wait returned
     noClient |-> FALSE]    \* Create, Update or Delete returned for want of a client

BeginRecon(h) == [h EXCEPT !.r = NewRecon, !.recons = @ + 1]
Step(h, name) ==
    IF h.failure /= NoErr THEN [h EXCEPT !.afterFail = @ \cup {name}] ELSE h
\* The reconciling function has returned to the operation.
EndRecon(h) == [h EXCEPT !.r = NewRecon]
Fail(h, kind, e) ==
    [h EXCEPT !.r.outcome = kind,
              !.failure = IF @ = NoErr THEN <<e>> ELSE @,
              !.failKind = IF h.failure = NoErr THEN kind ELSE @]

TypeOK ==
    /\ op \in {"none", "create", "update", "delete"}
    /\ pc \in {"idle", "bind", "wait", "bind_ret", "unbind_list", "unbind_next", "unbind",
               "unbind_ret", "read", "done"}
    /\ ctxDone \in BOOLEAN
    /\ newIds \subseteq PublishIds /\ oldIds \subseteq PublishIds
    /\ timeout \in Timeouts
    /\ id \in {"", "instance/signature"}
    /\ remote \in {BindingSeq(s) : s \in BindingLists}
    /\ pendBind \subseteq PublishIds /\ pendUnbind \subseteq BindIdSet
    /\ rkind \in {"none", "bind", "unbind"}
    /\ wst \in {"none", "sleep", "inflight"}
    /\ wait \in 0..MaxWait /\ elapsed \in 0..(Deadline(timeout) + RefreshGracePeriod)
    /\ graceOn \in BOOLEAN

\* Nothing imported yet.
ImportInit ==
    /\ impPc = "idle" /\ importedId = <<>> /\ impCfg = <<>>
    /\ impAttrs = <<>> /\ impErr = NoErr

\* No alert-rule update running.
AlertInit ==
    /\ alPc = "idle" /\ alChanged = {} /\ alStatus = ""
    /\ alPlanned = "" /\ alClient = FALSE
    /\ alCalls = <<>> /\ alDiags = <<"none">>

\* No operation of the signature association running, the service holding
\* the bindings r.
ApigInit(r) ==
    /\ remote = r
    /\ op = "none" /\ pc = "idle" /\ ctxDone = FALSE
    /\ newIds = {} /\ oldIds = {} /\ timeout = 2 * Second
    /\ id = "" /\ stateIds = {} /\ diags = <<"none">>
    /\ pendBind = {} /\ pendUnbind = {}
    /\ rkind = "none" /\ rPublish = <<>> /\ rmList = <<>>
    /\ bindIds = <<>> /\ bandIdx = 0 /\ err = NoErr
    /\ wst = "none" /\ wait = 0 /\ elapsed = 0 /\ timerAt = 0
    /\ graceOn = FALSE /\ lastState = ""
    /\ hist = NewHist

Init ==
    /\ \E r \in {BindingSeq(s) : s \in BindingLists} : ApigInit(r)
    /\ ImportInit /\ AlertInit

\* ------------------------------------------------- the resource operations

\* The start of WaitForStateContext: the clock of the wait at 0, the refresh
\* loop in its first timer.
EnterWait ==
    /\ pc' = "wait"
    /\ wst' = "sleep"
    /\ wait' = InitialWait
    /\ elapsed' = 0
    /\ timerAt' = InitialWait
    /\ graceOn' = FALSE
    /\ lastState' = ""

\* resourceSignatureAssociateUpdate: rmSet, old publish_ids minus new.
RmSet(o, n) == o \ n
AddSetAllNew(o, n) == n
\* resourceSignatureAssociateUpdate: addSet, new publish_ids minus old.
AddSet(o, n) == n \ o

\* diag.Errorf("error creating APIG v2 client: %s", err)
NoClientDiag == <<"error", <<"error creating APIG v2 client: ", ClientError>>>>

\* The schema framework calls Create, Update or Delete with the configuration,
\* the prior state and the operation's timeout; the function makes its client
\* and, unless that fails, runs to its first remote call.
Start ==
    /\ pc = "idle"
    /\ \E t \in Timeouts, o \in SUBSET PublishIds, n \in SUBSET PublishIds :
        /\ timeout' = t
        /\ oldIds' = o /\ newIds' = n
        /\ \/ \* resourceSignatureAssociateCreate
              /\ o = {}
              /\ op' = "create" /\ id' = "" /\ stateIds' = {}
           \/ \* resourceSignatureAssociateUpdate
              /\ o /= n
              /\ op' = "update" /\ id' = "instance/signature" /\ stateIds' = o
           \/ \* resourceSignatureAssociateDelete
              /\ o = n
              /\ op' = "delete" /\ id' = "instance/signature" /\ stateIds' = n
        /\ \/ \* cfg.ApigV2Client returned an error
              /\ diags' = NoClientDiag
              /\ pc' = "done"
              /\ hist' = [hist EXCEPT !.noClient = TRUE]
              /\ UNCHANGED <<rkind, rPublish, rmList>>
           \/ /\ UNCHANGED diags
              /\ IF op' = "create"
                 THEN /\ rkind' = "bind" /\ rPublish' = SetToSeq(n) /\ rmList' = <<>>
                      /\ pc' = "bind"
                      /\ hist' = BeginRecon(hist)
                 ELSE IF op' = "update"
                 THEN IF Cardinality(RmSet(o, n)) > 0
                      THEN /\ rkind' = "unbind" /\ rmList' = SetToSeq(RmSet(o, n))
                           /\ rPublish' = <<>> /\ pc' = "unbind_list"
                           /\ hist' = hist
                      ELSE /\ rkind' = "bind" /\ rPublish' = SetToSeq(AddSet(o, n))
                           /\ rmList' = <<>> /\ pc' = "bind"
                           /\ hist' = BeginRecon(hist)
                 ELSE /\ rkind' = "unbind" /\ rmList' = SetToSeq(n) /\ rPublish' = <<>>
                      /\ pc' = "unbind_list"
                      /\ hist' = hist
    /\ UNCHANGED <<ctxDone, remoteVars, bindIds, bandIdx, err, waitVars>>
    /\ UNCHANGED otherVars

BindFailedNoReturn(e) ==
    /\ err' = <<"error binding signature to the APIs: ", <<e>>>>
    /\ EnterWait
    /\ hist' = [Step(hist, "bind") EXCEPT !.r.mutCalls = @ + 1, !.r.mutFailed = TRUE,
                                          !.binds = Append(@, rPublish)]
\* bindSignatureToApis: signs.Bind returned an error.
BindFailed(e) ==
    /\ err' = <<"error binding signature to the APIs: ", <<e>>>>
    /\ pc' = "bind_ret"
    /\ hist' = Fail([Step(hist, "bind") EXCEPT !.r.mutCalls = @ + 1,
                                                !.r.mutFailed = TRUE,
                                                !.binds = Append(@, rPublish)],
                    "Failed", <<"error binding signature to the APIs: ", <<e>>>>)
    /\ UNCHANGED waitVars

\* bindSignatureToApis up to the wait: the signs.Bind call.
BindCall ==
    /\ pc = "bind"
    /\ \/ /\ pendBind' = pendBind \cup
                {p \in PublishIds : StrSliceContains(rPublish, p)
                    /\ ~StrSliceContains(flattenApiPublishIdsForSignature(remote), p)}
          /\ err' = NoErr
          /\ EnterWait
          /\ hist' = [Step(hist, "bind") EXCEPT !.r.mutCalls = @ + 1,
                                                !.binds = Append(@, rPublish)]
          /\ UNCHANGED <<remote, pendUnbind>>
       \/ /\ \E e \in ApiErrors : BindFailed(e)
          /\ UNCHANGED remoteVars
    /\ UNCHANGED <<op, ctxDone, inputVars, dataVars, rkind, rPublish, unbindVars>>
    /\ UNCHANGED otherVars

SelectAllBindIds(resp, rm) == [i \in DOMAIN resp |-> resp[i].BindId]
\* unbindSignatureFromApis: the bind IDs of the listed bindings whose publish
\* ID is in rmList, in the order listed.
SelectBindIds(resp, rm) ==
    LET Hit(val) == StrSliceContains(rm, val.PublishId)
        sel == SelectSeq(resp, Hit)
    IN [i \in DOMAIN sel |-> sel[i].BindId]

\* unbindSignatureFromApis up to its loop: the ListBind call.
UnbindList ==
    /\ pc = "unbind_list"
    /\ \E ans \in ListBindAnswers(remote) :
        IF ans.err /= NoErr
        THEN /\ err' = <<"error getting binding APIs based on signature: ", ans.err>>
             /\ pc' = "unbind_ret"
             /\ hist' = [Step(hist, "list") EXCEPT !.lists = @ + 1]
             /\ UNCHANGED <<bindIds, bandIdx>>
        ELSE /\ bindIds' = SelectBindIds(ans.body, rmList)
             /\ bandIdx' = 0
             /\ err' = NoErr
             /\ pc' = "unbind_next"
             /\ hist' = [Step(hist, "list") EXCEPT !.lists = @ + 1,
                                                   !.listResp = <<ans.body>>]
    /\ UNCHANGED <<op, ctxDone, inputVars, dataVars, remoteVars, rkind, rPublish,
                   rmList, waitVars>>
    /\ UNCHANGED otherVars

\* unbindSignatureFromApis: the head of "for _, bandId := range bindIds".
UnbindNext ==
    /\ pc = "unbind_next"
    /\ IF bandIdx < Len(bindIds)
       THEN /\ bandIdx' = bandIdx + 1
            /\ pc' = "unbind"
            /\ hist' = BeginRecon(hist)
       ELSE /\ pc' = "unbind_ret"
            /\ hist' = EndRecon(hist)
            /\ UNCHANGED bandIdx
    /\ UNCHANGED <<op, ctxDone, inputVars, dataVars, remoteVars, rkind, rPublish,
                   rmList, bindIds, err, waitVars>>
    /\ UNCHANGED otherVars

UnbindFailedContinues(e) ==
    /\ err' = <<"an error occurred during unbind signature: ", <<e>>>>
    /\ pc' = "unbind_next"
    /\ hist' = Fail([Step(hist, "unbind") EXCEPT !.r.mutCalls = @ + 1,
                                                  !.r.mutFailed = TRUE,
                                                  !.unbinds = Append(@, bindIds[bandIdx])],
                    "Failed", <<"an error occurred during unbind signature: ", <<e>>>>)
    /\ UNCHANGED waitVars
\* unbindSignatureFromApis: signs.Unbind returned an error.
UnbindFailed(e) ==
    /\ err' = <<"an error occurred during unbind signature: ", <<e>>>>
    /\ pc' = "unbind_ret"
    /\ hist' = Fail([Step(hist, "unbind") EXCEPT !.r.mutCalls = @ + 1,
                                                  !.r.mutFailed = TRUE,
                                                  !.unbinds = Append(@, bindIds[bandIdx])],
                    "Failed", <<"an error occurred during unbind signature: ", <<e>>>>)
    /\ UNCHANGED waitVars

UnbindWaitSkipped == pc' = "unbind_next" /\ UNCHANGED waitVars
\* unbindSignatureFromApis: after an accepted signs.Unbind, the wait for this
\* bind ID, before the loop goes on to the next one.
UnbindWait == EnterWait

\* unbindSignatureFromApis: the signs.Unbind call of one iteration.
UnbindCall ==
    /\ pc = "unbind"
    /\ \/ /\ pendUnbind' = pendUnbind \cup
                {b \in {bindIds[bandIdx]} : \E i \in DOMAIN remote : remote[i].BindId = b}
          /\ err' = NoErr
          /\ UnbindWait
          /\ hist' = [Step(hist, "unbind") EXCEPT !.r.mutCalls = @ + 1,
                                                  !.unbinds = Append(@, bindIds[bandIdx])]
          /\ UNCHANGED <<remote, pendBind>>
       \/ /\ \E e \in ApiErrors : UnbindFailed(e)
          /\ UNCHANGED remoteVars
    /\ UNCHANGED <<op, ctxDone, inputVars, dataVars, rkind, rPublish, unbindVars>>
    /\ UNCHANGED otherVars

\* --------------------------------------- StateChangeConf.WaitForStateContext

\* The refresh function of the running reconciliation, on a ListBind answer.
Refresh(ans) ==
    IF rkind = "bind" THEN signatureBindingRefreshFunc(ans, rPublish)
    ELSE signatureUnbindingRefreshFunc(ans, bindIds[bandIdx])

OutcomeOf(werr) ==
    IF werr = NoErr THEN "Completed"
    ELSE IF IsTimeoutError(werr) THEN "TimedOut"
    ELSE "Failed"

\* WaitForStateContext returns werr (NoErr: the target state was reached) and
\* the reconciling function wraps it: the end of bindSignatureToApis, or of one
\* iteration of unbindSignatureFromApis.
WaitReturn(werr, h) ==
    /\ wst' = "none" /\ wait' = 0 /\ elapsed' = 0 /\ timerAt' = 0
    /\ graceOn' = FALSE /\ lastState' = ""
    /\ LET msg == IF rkind = "bind"
                  THEN "error waiting for the binding completed: "
                  ELSE "error waiting for the unbind operation completed: "
           h2 == [h EXCEPT !.r.endedAt = elapsed,
                           !.pollTime = IF rkind = "unbind" /\ ~h.r.slow
                                        THEN Min(@ + elapsed, PollTimeCap) ELSE @,
                           !.abandoned = IF wst = "inflight" /\ h.r.returned < h.r.polls
                                         THEN @ + 1 ELSE @]
       IN IF werr = NoErr
          THEN /\ err' = NoErr
               /\ hist' = [h2 EXCEPT !.r.outcome = "Completed",
                                     !.absent = IF rkind = "unbind"
                                                THEN @ \cup {bindIds[bandIdx]} ELSE @]
               /\ pc' = IF rkind = "bind" THEN "bind_ret" ELSE "unbind_next"
          ELSE /\ err' = <<msg, werr>>
               /\ hist' = Fail(h2, OutcomeOf(werr), <<msg, werr>>)
               /\ pc' = IF rkind = "bind" THEN "bind_ret" ELSE "unbind_ret"

\* The refresh loop's timer fires and it calls conf.Refresh().
PollStart ==
    /\ pc = "wait" /\ wst = "sleep"
    /\ elapsed >= timerAt
    /\ wst' = "inflight"
    /\ wait' = IF wait = 0 THEN FirstWait ELSE wait
    /\ hist' = [hist EXCEPT !.r.polls = @ + 1,
                            !.r.gaps = IF hist.r.lastRet < 0 THEN @
                                       ELSE @ \cup {elapsed - hist.r.lastRet}]
    /\ UNCHANGED <<op, pc, ctxDone, inputVars, dataVars, remoteVars, rkind, rPublish,
                   unbindVars, err, elapsed, timerAt, graceOn, lastState>>
    /\ UNCHANGED otherVars

\* conf.Refresh() returns and the wait handles the result.
PollReturn ==
    /\ pc = "wait" /\ wst = "inflight"
    /\ \E ans \in ListBindAnswers(remote) :
        LET res == Refresh(ans)
            k == hist.r.polls
            h == [hist EXCEPT !.r.returned = @ + 1,
                              !.r.lastRet = elapsed,
                              !.r.lastRefresh = <<res>>,
                              !.r.pendSeen = IF res.err = NoErr /\ res.state = "PENDING"
                                             THEN @ + 1 ELSE @,
                              !.r.pollErrAt = IF res.err /= NoErr THEN k ELSE @,
                              !.r.doneAt = IF res.err = NoErr /\ res.state = "COMPLETED"
                                           THEN k ELSE @]
        IN CASE Classify(res) = "done" ->
                  WaitReturn(NoErr, h)
             [] Classify(res) = "error" ->
                  WaitReturn(IF graceOn THEN TimeoutError("", res.err, timeout)
                             ELSE res.err, h)
             [] Classify(res) = "pending" ->
                  IF graceOn
                  THEN WaitReturn(TimeoutError(res.state, NoErr, timeout), h)
                  ELSE /\ wst' = "sleep"
                       /\ wait' = NextWait(wait)
                       /\ timerAt' = elapsed + NextWait(wait)
                       /\ lastState' = res.state
                       /\ hist' = h
                       /\ pc' = AfterPending(rkind)
                       /\ UNCHANGED <<err, elapsed, graceOn>>
             [] OTHER ->
                  WaitReturn(<<"unexpected state", res.state>>, h)
    /\ UNCHANGED <<op, ctxDone, inputVars, dataVars, remoteVars, rkind, rPublish,
                   unbindVars>>
    /\ UNCHANGED otherVars

\* Time passes while the refresh loop sleeps in its timer: up to the timer or
\* the timeout, whichever is first.  A cancelled context wakes the wait at once.
Sleep ==
    /\ pc = "wait" /\ wst = "sleep" /\ ~ctxDone
    /\ elapsed < timerAt /\ elapsed < Deadline(timeout)
    /\ elapsed' = Min(timerAt, Deadline(timeout))
    /\ hist' = [hist EXCEPT !.r.sleeps = @ + 1]
    /\ UNCHANGED <<op, pc, ctxDone, inputVars, dataVars, remoteVars, rkind, rPublish,
                   unbindVars, err, wst, wait, timerAt, graceOn, lastState>>
    /\ UNCHANGED otherVars

\* Time passes while a refresh call is in flight: a step of CallStep up to the
\* timeout, and after it (no other timer is left) the whole grace period.
CallTakesTime ==
    /\ pc = "wait" /\ wst = "inflight" /\ ~ctxDone
    /\ LET limit == IF graceOn THEN Deadline(timeout) + RefreshGracePeriod
                    ELSE Deadline(timeout)
       IN /\ elapsed < limit
          /\ elapsed' = IF graceOn THEN limit ELSE Min(elapsed + CallStep, limit)
    /\ hist' = [hist EXCEPT !.r.slow = TRUE]
    /\ UNCHANGED <<op, pc, ctxDone, inputVars, dataVars, remoteVars, rkind, rPublish,
                   unbindVars, err, wst, wait, timerAt, graceOn, lastState>>
    /\ UNCHANGED otherVars

\* time.After(conf.Timeout) fires: a sleeping refresh loop is cancelled and the
\* wait returns a TimeoutError; a refresh call in flight gets the grace period.
TimeoutFires ==
    /\ pc = "wait" /\ wst /= "none" /\ ~graceOn
    /\ elapsed >= Deadline(timeout)
    /\ IF wst = "sleep"
       THEN WaitReturn(TimeoutError(lastState, NoErr, timeout),
                       [hist EXCEPT !.r.raced = (elapsed >= timerAt)])
       ELSE /\ graceOn' = TRUE
            /\ UNCHANGED <<pc, err, wst, hist, wait, elapsed, timerAt, lastState>>
    /\ UNCHANGED <<op, ctxDone, inputVars, dataVars, remoteVars, rkind, rPublish,
                   unbindVars>>
    /\ UNCHANGED otherVars

\* The grace period ends with the refresh call still in flight.
GraceExpires ==
    /\ pc = "wait" /\ wst = "inflight" /\ graceOn
    /\ elapsed >= Deadline(timeout) + RefreshGracePeriod
    /\ WaitReturn(TimeoutError(lastState, NoErr, timeout), hist)
    /\ UNCHANGED <<op, ctxDone, inputVars, dataVars, remoteVars, rkind, rPublish,
                   unbindVars>>
    /\ UNCHANGED otherVars

\* The wait sees ctx.Done(): it returns ctx.Err(), or, in the grace period,
\* the TimeoutError.
ContextDone ==
    /\ pc = "wait" /\ wst /= "none" /\ ctxDone
    /\ WaitReturn(IF graceOn THEN TimeoutError(lastState, NoErr, timeout)
                  ELSE ContextError, hist)
    /\ UNCHANGED <<op, ctxDone, inputVars, dataVars, remoteVars, rkind, rPublish,
                   unbindVars>>
    /\ UNCHANGED otherVars

\* The caller cancels the context it passed to the operation.
CancelContext ==
    /\ pc = "wait" /\ ~ctxDone
    /\ ctxDone' = TRUE
    /\ UNCHANGED <<op, pc, inputVars, dataVars, remoteVars, rkind, rPublish,
                   unbindVars, err, waitVars, hist>>
    /\ UNCHANGED otherVars

\* ------------------------------------------- after the reconciling functions

\* diag.FromErr(err)
FromErr(e) == <<"error", e>>

\* common.CheckDeletedDiag: a 404 clears the ID and warns, any other error is
\* returned with the message in front.
CheckDeletedDiag(e, msg) ==
    IF e = <<"e404">>
    THEN /\ id' = ""
         /\ diags' = <<"warning", "Resource not found">>
    ELSE /\ id' = id
         /\ diags' = <<"error", <<msg, e>>>>

\* Create and Update after bindSignatureToApis returned: the error, if any, is
\* converted by diag.FromErr and the result dropped; Create sets the ID.
AfterBind ==
    /\ pc = "bind_ret"
    /\ IF op = "create"
       THEN /\ id' = "instance/signature"
            /\ hist' = EndRecon(Step(hist, "set_id"))
       ELSE /\ hist' = EndRecon(hist)
            /\ UNCHANGED id
    /\ pc' = "read"
    /\ UNCHANGED <<op, ctxDone, inputVars, stateIds, diags, remoteVars, rkind, rPublish,
                   unbindVars, err, waitVars>>
    /\ UNCHANGED otherVars

\* Update and Delete after unbindSignatureFromApis returned.
AfterUnbind ==
    /\ pc = "unbind_ret"
    /\ IF err /= NoErr
       THEN /\ diags' = FromErr(err)
            /\ pc' = "done"
            /\ hist' = [EndRecon(hist) EXCEPT !.unbindErr = TRUE]
            /\ UNCHANGED <<rkind, rPublish>>
       ELSE IF op = "update"
       THEN IF Cardinality(AddSet(oldIds, newIds)) > 0
            THEN /\ rkind' = "bind"
                 /\ rPublish' = SetToSeq(AddSet(oldIds, newIds))
                 /\ pc' = "bind"
                 /\ hist' = BeginRecon(hist)
                 /\ UNCHANGED diags
            ELSE /\ pc' = "read"
                 /\ UNCHANGED <<rkind, rPublish, hist, diags>>
       ELSE /\ diags' = <<"nil">>
            /\ pc' = "done"
            /\ UNCHANGED <<rkind, rPublish, hist>>
    /\ UNCHANGED <<op, ctxDone, inputVars, id, stateIds, remoteVars, unbindVars, err,
                   waitVars>>
    /\ UNCHANGED otherVars

\* resourceSignatureAssociateRead, the last call of Create and Update.
Read ==
    /\ pc = "read"
    /\ \/ \* cfg.ApigV2Client returned an error
          /\ diags' = NoClientDiag
          /\ UNCHANGED <<id, stateIds>>
       \/ \E ans \in ListBindAnswers(remote) :
            IF ans.err /= NoErr
            THEN /\ CheckDeletedDiag(ans.err, "Signature association")
                 /\ UNCHANGED stateIds
            ELSE IF Len(ans.body) < 1
            THEN /\ CheckDeletedDiag(<<"e404">>, "")
                 /\ UNCHANGED stateIds
            ELSE /\ LET ids == flattenApiPublishIdsForSignature(ans.body)
                    IN stateIds' = {ids[i] : i \in DOMAIN ids}
                 /\ diags' = <<"nil">>
                 /\ UNCHANGED id
    /\ pc' = "done"
    /\ hist' = [Step(hist, "read") EXCEPT !.reads = @ + 1]
    /\ UNCHANGED <<op, ctxDone, inputVars, remoteVars, rkind, rPublish, unbindVars, err,
                   waitVars>>
    /\ UNCHANGED otherVars

\* --------------------------------------------------------- the remote service

\* The service makes an accepted binding visible to ListBind.
RemoteBinds ==
    /\ pc /= "done"
    /\ \E p \in pendBind :
        /\ remote' = Append(remote, Binding(p))
        /\ pendBind' = pendBind \ {p}
    /\ UNCHANGED <<op, pc, ctxDone, inputVars, dataVars, pendUnbind, rkind, rPublish,
                   unbindVars, err, waitVars, hist>>
    /\ UNCHANGED otherVars

\* The service removes a binding whose unbind it accepted.
RemoteUnbinds ==
    /\ pc /= "done"
    /\ \E b \in pendUnbind :
        LET Keep(val) == val.BindId /= b
        IN /\ remote' = SelectSeq(remote, Keep)
           /\ pendUnbind' = pendUnbind \ {b}
    /\ UNCHANGED <<op, pc, ctxDone, inputVars, dataVars, pendBind, rkind, rPublish,
                   unbindVars, err, waitVars, hist>>
    /\ UNCHANGED otherVars

Next ==
    \/ Start
    \/ BindCall
    \/ UnbindList
    \/ UnbindNext
    \/ UnbindCall
    \/ PollStart
    \/ PollReturn
    \/ Sleep
    \/ CallTakesTime
    \/ TimeoutFires
    \/ GraceExpires
    \/ ContextDone
    \/ CancelContext
    \/ AfterBind
    \/ AfterUnbind
    \/ Read
    \/ RemoteBinds
    \/ RemoteUnbinds

Spec == Init /\ [][Next]_vars

\* ------------------------------------ resourceSignatureAssociateImportState

\* The characters of an ID: the separator and one other.
Chars == {"a", "/"}
\* The strings of at most n characters.
Strings(n) == UNION {[1..k -> Chars] : k \in 0..n}

\* fmt.Sprintf("%s/%s", instanceId, signId)
Sprintf(instanceId, signId) == instanceId \o <<"/">> \o signId

\* strings.Index(s, "/"), counted from 1; 0 when s has no "/".
Index(s) ==
    IF \E i \in DOMAIN s : s[i] = "/"
    THEN CHOOSE i \in DOMAIN s : s[i] = "/" /\ \A j \in 1..(i - 1) : s[j] /= "/"
    ELSE 0

SplitAtLast(s) ==
    IF \E i \in DOMAIN s : s[i] = "/"
    THEN LET i == CHOOSE k \in DOMAIN s : s[k] = "/" /\ \A j \in (k + 1)..Len(s) : s[j] /= "/"
         IN <<SubSeq(s, 1, i - 1), SubSeq(s, i + 1, Len(s))>>
    ELSE <<s>>
\* strings.SplitN(s, "/", 2): s cut at its first "/", or s alone.
SplitN(s) ==
    IF Index(s) = 0 THEN <<s>>
    ELSE <<SubSeq(s, 1, Index(s) - 1), SubSeq(s, Index(s) + 1, Len(s))>>

\* "terraform import" with an ID the user typed.
ImportUserId ==
    /\ impPc = "idle"
    /\ \E s \in Strings(MaxIdLen) :
        /\ importedId' = s
        /\ impCfg' = <<>>
    /\ impPc' = "set"
    /\ UNCHANGED <<impAttrs, impErr, apigVars, alertVars>>

\* "terraform import" with the ID resourceSignatureAssociateCreate assigned:
\* d.SetId(fmt.Sprintf("%s/%s", instanceId, signId)).
ImportCreatedId ==
    /\ impPc = "idle"
    /\ \E instanceId \in Strings(MaxPartLen), signId \in Strings(MaxPartLen) :
        /\ importedId' = Sprintf(instanceId, signId)
        /\ impCfg' = <<instanceId, signId>>
    /\ impPc' = "set"
    /\ UNCHANGED <<impAttrs, impErr, apigVars, alertVars>>

resourceSignatureAssociateImportState ==
    /\ impPc = "set"
    /\ LET parts == SplitN(importedId)
       IN IF Len(parts) /= 2
          THEN /\ impErr' = <<"invalid format specified for import ID, want '<instance_id>/<signature_id>', but got ",
                              importedId>>
               /\ impPc' = "rejected"
               /\ UNCHANGED impAttrs
          ELSE /\ impAttrs' = <<parts[1], parts[2]>>
               /\ impErr' = NoErr
               /\ impPc' = "imported"
    /\ UNCHANGED <<importedId, impCfg, apigVars, alertVars>>

ImportNext ==
    \/ ImportUserId
    \/ ImportCreatedId
    \/ resourceSignatureAssociateImportState

ImportSpecInit == ApigInit(<<>>) /\ ImportInit /\ AlertInit

ImportSpec == ImportSpecInit /\ [][ImportNext]_vars

\* --------------------------------------------------- resourceAlertRuleUpdate

\* updateAlertRuleChanges
UpdateAlertRuleChanges ==
    <<"name", "severity", "type", "description", "query_rule", "query_type",
      "query_plan", "custom_information", "event_grouping", "debugging_alarm",
      "triggers", "suppression">>

\* The attributes of the schema an update can change: those not ForceNew and
\* not only computed.
AlertKeys ==
    {"name", "severity", "type", "description", "status", "query_rule",
     "query_plan", "triggers", "query_type", "custom_information",
     "event_grouping", "debugging_alarm", "suppression"}

\* What one update may find changed.
ChangeSets == {c \in SUBSET AlertKeys : Cardinality(c) <= MaxChanged}

\* Values of the attribute status.
Statuses == {"ENABLED", "DISABLED", "enabled"}

\* d.HasChange(key)
HasChange(key) == key \in alChanged
\* d.HasChanges(keys...)
HasChanges(keys) == \E i \in DOMAIN keys : HasChange(keys[i])

AlertStatusActionByDisabled(status) == IF status = "DISABLED" THEN "disable" ELSE "enable"
\* resourceAlertRuleUpdate: the action updateAlertStatus is called with.
AlertStatusAction(status) == IF status = "ENABLED" THEN "enable" ELSE "disable"

\* diag.Errorf("error creating SecMaster client: %s", err)
NoSecMasterClientDiag == <<"error", <<"error creating SecMaster client: ", ClientError>>>>

\* The framework calls resourceAlertRuleUpdate with the changes of a plan; the
\* function makes its client or returns for want of it.
AlertUpdateStart ==
    /\ alPc = "idle"
    /\ alChanged' \in ChangeSets
    /\ \E st \in Statuses : alPlanned' = st /\ alStatus' = st
    /\ \/ \* cfg.NewServiceClient returned an error
          /\ alClient' = FALSE
          /\ alDiags' = NoSecMasterClientDiag
          /\ alPc' = "done"
       \/ /\ alClient' = TRUE
          /\ alPc' = "put"
          /\ UNCHANGED alDiags
    /\ UNCHANGED <<alCalls, apigVars, importVars>>

\* resourceAlertRuleUpdate: the PUT of the rule, if a listed attribute changed.
UpdateAlertRule ==
    /\ alPc = "put"
    /\ IF HasChanges(UpdateAlertRuleChanges)
       THEN /\ alCalls' = Append(alCalls, <<"PUT", "alert-rules/{id}">>)
            /\ \/ /\ alPc' = "status"
                  /\ UNCHANGED alDiags
               \/ \E e \in ApiErrors :
                     /\ alDiags' = <<"error", <<"error updating AlertRule: ", <<e>>>>>>
                     /\ alPc' = "done"
       ELSE /\ alPc' = "status"
            /\ UNCHANGED <<alCalls, alDiags>>
    /\ UNCHANGED <<alChanged, alPlanned, alClient, alStatus, apigVars, importVars>>

\* updateAlertStatus: the POST to alert-rules/{action}, and what
\* resourceAlertRuleUpdate does with its result.
updateAlertStatus(action) ==
    /\ alCalls' = Append(alCalls, <<"POST", action>>)
    /\ \/ /\ alPc' = "read"
          /\ UNCHANGED alDiags
       \/ \E e \in ApiErrors :
             /\ alDiags' = FromErr(<<"error updating alert rule status: ", <<e>>>>)
             /\ alPc' = "done"

\* resourceAlertRuleUpdate: the status change, if status changed.
UpdateAlertStatus ==
    /\ alPc = "status"
    /\ IF HasChange("status")
       THEN updateAlertStatus(AlertStatusAction(alStatus))
       ELSE /\ alPc' = "read"
            /\ UNCHANGED <<alCalls, alDiags>>
    /\ UNCHANGED <<alChanged, alPlanned, alClient, alStatus, apigVars, importVars>>

\* The status the service reports for a rule.
ServiceStatuses == {"ENABLED", "DISABLED"}
\* What the GET of the rule can answer, as far as Read's outcome depends on
\* it: the status, and whether create_time and update_time are there.
GetAlertRuleBodies ==
    [status : ServiceStatuses, create_time : BOOLEAN, update_time : BOOLEAN]

\* resourceAlertRuleRead, the last call of resourceAlertRuleUpdate: the GET of
\* the rule and the refresh of the attributes from its answer.
resourceAlertRuleRead ==
    /\ alPc = "read"
    /\ \/ \* cfg.NewServiceClient returned an error
          /\ alDiags' = NoSecMasterClientDiag
          /\ alPc' = "done"
          /\ UNCHANGED <<alCalls, alStatus>>
       \/ /\ alCalls' = Append(alCalls, <<"GET", "alert-rules/{id}">>)
          /\ \/ \* the request failed: common.CheckDeletedDiag
                /\ \/ alDiags' = <<"warning", "Resource not found">>
                   \/ alDiags' = <<"error", <<"error retrieving AlertRule", <<"e500">>>>>>
                /\ alPc' = "done"
                /\ UNCHANGED alStatus
             \/ \* utils.FlattenResponse returned an error
                /\ alDiags' = FromErr(<<"flatten response">>)
                /\ alPc' = "done"
                /\ UNCHANGED alStatus
             \/ \E body \in GetAlertRuleBodies :
                   \* d.Set("status", ...) comes before the time stamps
                   /\ alStatus' = body.status
                   /\ IF body.create_time /\ body.update_time
                      THEN /\ alPc' = "done"
                           /\ \/ alDiags' = <<"nil">>
                              \/ \* some d.Set returned an error
                                 alDiags' = FromErr(<<"d.Set">>)
                      ELSE \* .(float64) on the int 0
                           /\ alPc' = "panic"
                           /\ alDiags' = <<"panic", "interface conversion">>
    /\ UNCHANGED <<alChanged, alPlanned, alClient, apigVars, importVars>>

AlertNext ==
    \/ AlertUpdateStart
    \/ UpdateAlertRule
    \/ UpdateAlertStatus
    \/ resourceAlertRuleRead

AlertSpecInit == ApigInit(<<>>) /\ ImportInit /\ AlertInit

AlertSpec == AlertSpecInit /\ [][AlertNext]_vars

\* -------------------------------------------------------------- properties

\* A reconciliation has returned to the operation that ran it.
Returned == hist.r.outcome /= "none"
\* Every refresh call that returned to the wait returned PENDING.
AlwaysPending ==
    /\ hist.r.mutCalls = 1 /\ ~hist.r.mutFailed
    /\ hist.r.pendSeen = hist.r.returned
\* The error the wait returned, inside the reconciling function's message.
WaitError == err[2]

\* C1: when signs.Bind / signs.Unbind returns an error, the reconciliation has
\* returned a failure (the function is back at its caller with an error) and
\* the refresh function has not been called for it.
C1_MutationFailureNoPoll ==
    hist.r.mutFailed =>
        /\ hist.r.polls = 0
        /\ hist.r.outcome = "Failed"
        /\ pc \in {"bind_ret", "unbind_ret"}
        /\ wst = "none"
        /\ err /= NoErr
        /\ err[1] \in {"error binding signature to the APIs: ",
                       "an error occurred during unbind signature: "}

C1_Witness ==
    /\ hist.r.mutFailed /\ pc = "bind_ret" /\ op = "update"
    /\ hist.recons = 2

\* C2: in Create, Update and Delete a failed reconciliation (mutation error,
\* poll error or timeout) ends the operation: no step (set ID, bind, read)
\* follows it, and the operation returns the error of that reconciliation.
C2_FailurePropagates ==
    /\ hist.afterFail = {}
    /\ (pc = "done" /\ hist.failure /= NoErr) => diags = FromErr(hist.failure[1])

\* C3: within one reconciliation the mutating call is issued at most once,
\* exactly once by the time any refresh call is made or the reconciliation
\* returns, so no poll precedes it and none follows a second one.
C3_MutateOnceBeforePoll ==
    /\ hist.r.mutCalls <= 1
    /\ hist.r.polls > 0 => hist.r.mutCalls = 1
    /\ Returned => hist.r.mutCalls = 1
    /\ pc = "wait" => hist.r.mutCalls = 1

C3_Witness ==
    /\ rkind = "unbind" /\ bandIdx = 2
    /\ hist.r.polls = 3 /\ hist.r.mutCalls = 1

\* C4 as stated: a refresh error on call K makes the reconciliation return
\* Failed, with exactly K refresh calls made.
C4_PollErrorFails ==
    hist.r.pollErrAt > 0 =>
        /\ hist.r.outcome = "Failed"
        /\ hist.r.polls = hist.r.pollErrAt

\* C4 as amended: a refresh error on call K ends the wait at once with exactly
\* K refresh calls made and an error returned; the outcome is Failed with the
\* refresh error, unless the timeout had fired while call K was in flight, and
\* then it is TimedOut with the refresh error as the TimeoutError's LastError.
C4_PollErrorEndsWait ==
    hist.r.pollErrAt > 0 =>
        /\ hist.r.polls = hist.r.pollErrAt
        /\ hist.r.returned = hist.r.pollErrAt
        /\ pc \in {"bind_ret", "unbind_ret"} /\ wst = "none"
        /\ err /= NoErr
        /\ hist.r.lastRefresh[1].err /= NoErr
        /\ \/ /\ hist.r.outcome = "Failed"
              /\ WaitError = hist.r.lastRefresh[1].err
           \/ /\ hist.r.outcome = "TimedOut"
              /\ hist.r.endedAt >= timeout
              /\ WaitError = TimeoutError("", hist.r.lastRefresh[1].err, timeout)

C4_Witness ==
    /\ hist.r.pollErrAt = 3 /\ hist.r.outcome = "Failed" /\ hist.r.pendSeen = 2

\* C5: when the refresh function returns PENDING N times and then COMPLETED,
\* the reconciliation returns Completed after exactly N+1 refresh calls, and at
\* least MinTimeout passes between one refresh call's return and the next call.
C5_PendingThenCompleted ==
    /\ hist.r.doneAt > 0 =>
        /\ hist.r.outcome = "Completed"
        /\ err = NoErr
        /\ hist.r.polls = hist.r.pendSeen + 1
        /\ hist.r.doneAt = hist.r.polls
    /\ hist.r.outcome = "Completed" => hist.r.doneAt = hist.r.polls
    /\ \A g \in hist.r.gaps : g >= MinTimeout
    /\ Cardinality(hist.r.gaps) >= Min(hist.r.polls, 2) - 1

C5_Witness ==
    /\ hist.r.outcome = "Completed" /\ hist.r.pendSeen = 2 /\ hist.r.polls = 3
    /\ hist.r.endedAt = 6 * Second

\* C6: when the first refresh call returns COMPLETED, the reconciliation
\* returns Completed after that one call, the refresh loop never having slept
\* in its timer.
C6_CompletedAtFirstPoll ==
    hist.r.doneAt = 1 =>
        /\ hist.r.outcome = "Completed"
        /\ hist.r.polls = 1
        /\ hist.r.sleeps = 0

C6_Witness ==
    /\ hist.r.doneAt = 1 /\ hist.r.outcome = "Completed"
    /\ rkind = "bind" /\ Len(rPublish) = 2

\* C7 as stated: a reconciliation whose refresh calls all returned PENDING
\* returns TimedOut, after at least the timeout.
C7_AlwaysPendingTimesOut ==
    (Returned /\ AlwaysPending /\ hist.r.pendSeen >= 1) =>
        /\ hist.r.outcome = "TimedOut"
        /\ hist.r.endedAt >= timeout

RECURSIVE ScheduledPolls(_, _, _)
\* The refresh calls due within t ticks when the gap after call 1 is MinTimeout
\* and each later gap is twice the one before, up to MaxWait: at, the time of
\* the next call; gap, the gap after it.
ScheduledPolls(t, at, gap) ==
    IF at > t THEN 0
    ELSE 1 + ScheduledPolls(t, at + gap, Min(2 * gap, MaxWait))

\* A step of the wait itself: of its clock, its refresh loop or its select.
WaitStep ==
    \/ PollStart \/ PollReturn \/ Sleep \/ CallTakesTime
    \/ TimeoutFires \/ GraceExpires \/ ContextDone

\* What every step taken during a wait increases: time, refresh calls made and
\* returned, the timeout and the cancellation having happened, the pending
\* work of the service done.
WaitProgress ==
    elapsed + hist.r.polls + hist.r.returned
        + (IF graceOn THEN 1 ELSE 0) + (IF ctxDone THEN 1 ELSE 0)
        - Cardinality(pendBind) - Cardinality(pendUnbind)

\* C7 as amended: a wait always ends, and when every refresh call returned
\* PENDING it never ends Completed.  It ends TimedOut, with a TimeoutError and
\* after at least the timeout, unless the caller's context was cancelled and
\* the wait saw that before its timeout fired: then it ends Failed with the
\* context's error, no later than the timeout.  A wait that sees the
\* cancellation in the grace period ends TimedOut like any other.  That it
\* ends: a wait never runs past the timeout plus the grace period nor makes
\* more refresh calls than the schedule has points, it can always take a
\* step, and every step that leaves it waiting increases WaitProgress.
C7_PendingEndsTimedOut ==
    /\ []((Returned /\ AlwaysPending) =>
            /\ hist.r.outcome \in {"TimedOut", "Failed"}
            /\ hist.r.outcome = "TimedOut" =>
                  /\ hist.r.endedAt >= timeout
                  /\ IsTimeoutError(WaitError)
            /\ hist.r.outcome = "Failed" =>
                  /\ ctxDone
                  /\ WaitError = ContextError
                  /\ hist.r.endedAt <= timeout)
    /\ [](pc = "wait" =>
            /\ elapsed <= timeout + RefreshGracePeriod
            /\ hist.r.polls <= ScheduledPolls(timeout, 0, MinTimeout)
            /\ ENABLED WaitStep)
    /\ [][(pc = "wait" /\ pc' = "wait") => WaitProgress' > WaitProgress]_vars

C7_Witness ==
    /\ Returned /\ AlwaysPending /\ ~ctxDone
    /\ hist.r.pendSeen = 3 /\ hist.r.outcome = "TimedOut"

\* C8 as stated: a reconciliation that timed out with every refresh call
\* returning PENDING made at least floor(timeout / MinTimeout) refresh calls
\* (taken in its most favourable case: each refresh call returned at once, the
\* context was not cancelled, no refresh was due when the timeout fired).
C8_PollsAtLeastQuotient ==
    (/\ hist.r.outcome = "TimedOut" /\ AlwaysPending
     /\ ~hist.r.slow /\ ~hist.r.raced /\ ~ctxDone) =>
        hist.r.polls >= timeout \div MinTimeout

\* C8 as amended: a reconciliation that timed out with every refresh call
\* returning PENDING made at least one refresh call and at most one per point
\* of the schedule 0 s, 2 s, 6 s, 14 s, 24 s, ... that is not after the timeout.
C8_PollsWithinSchedule ==
    (hist.r.outcome = "TimedOut" /\ AlwaysPending) =>
        /\ hist.r.polls >= 1
        /\ hist.r.polls <= ScheduledPolls(timeout, 0, MinTimeout)

C8_Witness ==
    /\ hist.r.outcome = "TimedOut" /\ AlwaysPending /\ ~hist.r.slow /\ ~hist.r.raced
    /\ timeout = 8 * Second /\ hist.r.polls = 3

\* C9: an operation whose reconciliation timed out returns an error carrying
\* the TimeoutError, one whose reconciliation failed returns an error that
\* carries none: the two are told apart by what the operation returns.
C9_TimedOutAndFailedDistinct ==
    (pc = "done" /\ hist.failure /= NoErr) =>
        /\ diags[1] = "error"
        /\ diags = FromErr(hist.failure[1])
        /\ IsTimeoutError(hist.failure[1][2]) <=> hist.failKind = "TimedOut"

\* C10: a refresh call of a bind reconciliation whose ListBind succeeded
\* reports COMPLETED exactly when every requested publish ID is among the
\* listed bindings, and PENDING otherwise; with publish IDs requested and an
\* empty list it reports PENDING: that call ends the wait neither with an error
\* nor as Completed.
C10_BindPredicate ==
    (rkind = "bind" /\ hist.r.lastRefresh /= <<>>) =>
        LET res == hist.r.lastRefresh[1]
            listed == {res.resp[j].PublishId : j \in DOMAIN res.resp}
            wanted == {rPublish[i] : i \in DOMAIN rPublish}
        IN res.err = NoErr =>
            /\ res.state \in {"COMPLETED", "PENDING"}
            /\ res.state = "COMPLETED" <=> wanted \subseteq listed
            /\ (Len(res.resp) = 0 /\ wanted /= {}) =>
                  /\ res.state = "PENDING"
                  /\ hist.r.pendSeen = hist.r.returned
                  /\ hist.r.pollErrAt = 0 /\ hist.r.doneAt = 0
                  /\ hist.r.outcome /= "Completed"

C10_Witness ==
    /\ rkind = "bind" /\ hist.r.lastRefresh /= <<>> /\ pc = "wait"
    /\ hist.r.polls = 1 /\ hist.r.returned = 1
    /\ hist.r.lastRefresh[1].err = NoErr
    /\ Len(hist.r.lastRefresh[1].resp) = 0
    /\ Len(rPublish) = 2

\* The refresh calls of the running reconciliation that have not returned.
InFlight == hist.r.polls - hist.r.returned

\* C11: the calls of one reconciliation happen one after another.  A refresh
\* call is started only when every earlier one has returned (at most one is in
\* flight, and exactly when the wait says so); when signs.Bind / signs.Unbind
\* is about to be called no refresh call is in flight, neither of this
\* reconciliation nor left behind by an earlier one; and every bind ID that
\* signs.Unbind was called on before the latest one has had its wait return
\* with the bind ID found absent.
C11_Sequential ==
    /\ InFlight \in {0, 1}
    /\ pc = "wait" => (InFlight = 1 <=> wst = "inflight")
    /\ pc \in {"bind", "unbind"} =>
          /\ wst = "none" /\ hist.r.polls = 0 /\ hist.r.mutCalls = 0
          /\ hist.abandoned = 0
    /\ hist.r.polls > 0 => hist.r.mutCalls = 1
    /\ \A i \in 1..(Len(hist.unbinds) - 1) : hist.unbinds[i] \in hist.absent

C11_Witness ==
    /\ Len(hist.unbinds) = 2 /\ hist.unbinds[1] \in hist.absent
    /\ pc = "wait" /\ wst = "inflight" /\ hist.r.polls = 2 /\ hist.r.returned = 1

\* The mutating call of the reconciliation succeeded and its wait has returned.
WaitEnded == Returned /\ hist.r.mutCalls = 1 /\ ~hist.r.mutFailed

\* C12 as stated: a wait ends only because a refresh call returned COMPLETED,
\* a refresh call returned an error, or the timeout expired.
C12_TimeoutOnlyCancellation ==
    WaitEnded =>
        \/ hist.r.outcome = "Completed" /\ hist.r.doneAt > 0
        \/ hist.r.pollErrAt > 0
        \/ hist.r.outcome = "TimedOut" /\ hist.r.endedAt >= timeout

\* C12 as amended: a wait ends only because a refresh call returned COMPLETED,
\* a refresh call returned an error, the timeout expired, or the context the
\* caller passed was cancelled; in the last case, and only then, it can end
\* before the timeout with every refresh call PENDING, returning ctx.Err().
C12_EndsByResultTimeoutOrContext ==
    WaitEnded =>
        \/ hist.r.outcome = "Completed" /\ hist.r.doneAt > 0
        \/ hist.r.pollErrAt > 0
        \/ hist.r.outcome = "TimedOut" /\ hist.r.endedAt >= timeout
        \/ /\ ctxDone /\ hist.r.outcome = "Failed"
           /\ WaitError = ContextError
           /\ hist.r.endedAt <= timeout

C12_Witness ==
    /\ WaitEnded /\ ctxDone /\ hist.r.outcome = "Failed"
    /\ WaitError = ContextError /\ rkind = "unbind"
    /\ hist.r.pendSeen = 2 /\ hist.r.endedAt < timeout

\* C13: a refresh call is a read and nothing else.  The step that starts one
\* and the step in which one returns leave the bindings of the service, what
\* the service has pending, the resource state (ID, publish_ids, diagnostics)
\* and the configuration unchanged; and the result of a call whose ListBind
\* succeeded is the list the service holds at that moment and the state the
\* refresh function computes from that list alone.
C13_PollIsFreshRead ==
    [][/\ (hist'.r.polls = hist.r.polls + 1 \/ hist'.r.returned = hist.r.returned + 1) =>
            /\ remoteVars' = remoteVars
            /\ dataVars' = dataVars
            /\ inputVars' = inputVars
       /\ hist'.r.returned = hist.r.returned + 1 =>
            LET res == hist'.r.lastRefresh[1]
            IN /\ res.err /= NoErr => res.state = ""
               /\ res.err = NoErr =>
                    /\ res.resp = remote
                    /\ res = Refresh([err |-> NoErr, body |-> remote])]_vars

C13_Witness ==
    /\ hist.r.returned = 2 /\ hist.r.pendSeen = 1 /\ hist.r.doneAt = 2
    /\ rkind = "bind" /\ Len(remote) = 2
    /\ hist.r.lastRefresh[1].resp = remote

\* The bind IDs unbindSignatureFromApis is to unbind: those of the bindings
\* its ListBind call listed with a publish ID among ids.
ToUnbind(ids) ==
    IF hist.listResp = <<>> THEN <<>>
    ELSE SelectBindIds(hist.listResp[1], SetToSeq(ids))

\* C15: in Update, with rm = old minus new and add = new minus old.  Once
\* signs.Bind has been called, the unbind phase is over: if rm is not empty,
\* signs.Unbind has been called on every listed binding of rm, each was found
\* absent by a later refresh call, and the phase returned no error; the one
\* Bind call carries exactly add.  If the unbind phase returned an error, no
\* Bind call and no Read was made and the error is returned.  No Unbind call
\* targets a binding outside rm and no Bind call a publish ID outside add, so
\* IDs in both old and new are never touched.  With rm empty there is no
\* ListBind-for-unbind and no Unbind call; with add empty no Bind call; with
\* add not empty an Update that had its client and got through its unbind
\* phase does call Bind.  An Update that could not make its client calls
\* nothing.
C15_UpdateOrder ==
    op = "update" =>
        LET rm == oldIds \ newIds
            add == newIds \ oldIds
        IN /\ hist.binds /= <<>> =>
                /\ hist.binds = <<SetToSeq(add)>>
                /\ ~hist.unbindErr
                /\ rm /= {} =>
                      /\ hist.lists = 1 /\ hist.listResp /= <<>>
                      /\ hist.unbinds = ToUnbind(rm)
                      /\ \A i \in DOMAIN hist.unbinds : hist.unbinds[i] \in hist.absent
           /\ hist.unbindErr =>
                /\ hist.binds = <<>> /\ hist.reads = 0
                /\ pc = "done" /\ diags = FromErr(err)
           /\ \A i \in DOMAIN hist.unbinds :
                \E p \in rm : hist.unbinds[i] = BindIdOf(p)
           /\ \A i \in DOMAIN hist.binds : \A j \in DOMAIN hist.binds[i] :
                hist.binds[i][j] \in add
           /\ rm = {} => (hist.lists = 0 /\ hist.unbinds = <<>>)
           /\ add = {} => hist.binds = <<>>
           /\ (pc \in {"read", "done"} /\ ~hist.unbindErr /\ ~hist.noClient /\ add /= {}) =>
                Len(hist.binds) = 1
           /\ hist.noClient =>
                /\ hist.binds = <<>> /\ hist.unbinds = <<>>
                /\ hist.lists = 0 /\ hist.reads = 0
                /\ pc = "done" /\ diags = NoClientDiag

C15_Witness ==
    /\ op = "update" /\ pc = "done" /\ diags = <<"nil">>
    /\ oldIds = {1} /\ newIds = {2}
    /\ hist.unbinds = <<BindIdOf(1)>> /\ hist.binds = <<(<<2>>)>>
    /\ hist.reads = 1 /\ stateIds = {2}

\* The ticks the running operation has spent so far in the waits of
\* unbindSignatureFromApis, at least.
UnbindPollTime ==
    hist.pollTime + (IF pc = "wait" /\ rkind = "unbind" THEN elapsed ELSE 0)

\* C16 as stated: the time a Delete, or the unbind phase of an Update, spends
\* polling never exceeds the operation's timeout (taken in its most favourable
\* case: every refresh call returned at once, so that no wait was held up by a
\* call in flight).
C16_TotalPollingWithinTimeout ==
    (op \in {"delete", "update"} /\ ~hist.r.slow) => UnbindPollTime <= timeout

\* C16 as amended: the timeout bounds the polling for each bind ID, not their
\* sum.  One wait never runs past the timeout while its refresh loop sleeps,
\* nor past the timeout plus the grace period with a refresh call in flight;
\* every bind ID gets a wait of its own, so that time adds up over the bind
\* IDs signs.Unbind was called on.
C16_PollingWithinTimeoutEach ==
    op \in {"delete", "update"} =>
        /\ (pc = "wait" /\ ~graceOn) => elapsed <= timeout
        /\ pc = "wait" => elapsed <= timeout + RefreshGracePeriod
        /\ Returned => hist.r.endedAt <= timeout + RefreshGracePeriod
        /\ (Returned /\ ~hist.r.slow) => hist.r.endedAt <= timeout
        /\ hist.pollTime > 0 => Len(hist.unbinds) >= 1
        /\ (hist.pollTime > 0 /\ pc = "wait" /\ rkind = "unbind") =>
              Len(hist.unbinds) >= 2

C16_Witness ==
    /\ op = "delete" /\ pc = "wait" /\ wst = "sleep" /\ Len(hist.unbinds) = 2
    /\ timeout = 4 * Second /\ elapsed = timeout /\ ~hist.r.slow
    /\ hist.pollTime = MinTimeout
    /\ UnbindPollTime > timeout

\* The publish ID of the binding with bind ID b in the list resp.
PublishIdOf(resp, b) ==
    LET i == CHOOSE j \in DOMAIN resp : resp[j].BindId = b IN resp[i].PublishId

\* C17: Delete and the bindings it is to remove.  signs.Unbind is never called
\* on a bind ID that the ListBind call of unbindSignatureFromApis did not list
\* with a publish ID of publish_ids, nor twice on the same bind ID.  When Delete
\* returns without error, signs.Unbind has been called exactly once on every
\* such binding and a later refresh call found each absent; when no listed
\* binding matches, no Unbind call was made and Delete succeeded without
\* polling.
C17_DeleteUnbindsMatching ==
    op = "delete" =>
        /\ \A i \in DOMAIN hist.unbinds :
              /\ StrSliceContains(ToUnbind(newIds), hist.unbinds[i])
              /\ PublishIdOf(hist.listResp[1], hist.unbinds[i]) \in newIds
              /\ \A j \in DOMAIN hist.unbinds : hist.unbinds[i] = hist.unbinds[j] => i = j
        /\ hist.absent \subseteq {hist.unbinds[i] : i \in DOMAIN hist.unbinds}
        /\ (pc = "done" /\ diags = <<"nil">>) =>
              /\ hist.lists = 1 /\ hist.listResp /= <<>>
              /\ \A i \in DOMAIN hist.listResp[1] :
                    LET val == hist.listResp[1][i]
                        calls == {j \in DOMAIN hist.unbinds : hist.unbinds[j] = val.BindId}
                    IN IF val.PublishId \in newIds
                       THEN Cardinality(calls) = 1 /\ val.BindId \in hist.absent
                       ELSE calls = {}
              /\ Len(hist.unbinds) = Len(ToUnbind(newIds))
              /\ hist.binds = <<>>
        /\ (pc = "done" /\ hist.listResp /= <<>> /\ ToUnbind(newIds) = <<>>) =>
              /\ hist.unbinds = <<>> /\ diags = <<"nil">>
              /\ hist.pollTime = 0 /\ hist.recons = 0

C17_Witness ==
    /\ op = "delete" /\ pc = "done" /\ diags = <<"nil">>
    /\ newIds = {2} /\ Len(hist.listResp[1]) = 2
    /\ hist.unbinds = <<BindIdOf(2)>> /\ hist.absent = {BindIdOf(2)}
    /\ Len(remote) = 1 /\ remote[1].PublishId = 1

\* C18: unbindSignatureFromApis fails at its k-th bind ID (signs.Unbind
\* returned an error, or the wait for that bind ID returned one: a refresh
\* error, a timeout, a cancelled context).  It is then back at its caller with
\* that error and takes no further step: signs.Unbind has been called on the
\* first k bind IDs and on no later one, the first k-1 were each found absent
\* and are still absent from the service's list, no signs.Bind call was made,
\* and the operation returns the error without a Read.
C18_UnbindStopsAtFailure ==
    (hist.failure /= NoErr /\ rkind = "unbind") =>
        LET k == bandIdx
        IN /\ pc \in {"unbind_ret", "done"}
           /\ err = hist.failure[1]
           /\ err[1] \in {"an error occurred during unbind signature: ",
                          "error waiting for the unbind operation completed: "}
           /\ k \in 1..Len(bindIds)
           /\ hist.unbinds = SubSeq(bindIds, 1, k)
           /\ hist.absent = {bindIds[i] : i \in 1..(k - 1)}
           /\ \A i \in 1..(k - 1) : \A j \in DOMAIN remote :
                remote[j].BindId /= bindIds[i]
           /\ hist.binds = <<>> /\ pendBind = {}
           /\ hist.afterFail = {} /\ hist.reads = 0
           /\ pc = "done" => (hist.unbindErr /\ diags = FromErr(err))

C18_Witness ==
    /\ hist.failure /= NoErr /\ rkind = "unbind" /\ pc = "done"
    /\ Len(bindIds) = 2 /\ bandIdx = 2
    /\ hist.failKind = "TimedOut"
    /\ Len(remote) = 1 /\ remote[1].BindId = bindIds[2]

\* Whether the string s has a "/".
HasSlash(s) == \E i \in DOMAIN s : s[i] = "/"

\* C19: ImportState accepts the import ID exactly when it has a "/".  An
\* accepted ID is instance_id, "/", signature_id put together, with no "/" in
\* instance_id (so the cut is at the first one) and no error returned; a
\* rejected one leaves both attributes unset and returns an error.  The ID
\* Create assigns is always accepted, and gives back the instance_id and the
\* signature_id of the configuration when that instance_id has no "/".
C19_ImportSplitsAtFirstSlash ==
    impPc \in {"imported", "rejected"} =>
        /\ impPc = "imported" <=> HasSlash(importedId)
        /\ impPc = "imported" =>
              /\ Len(impAttrs) = 2 /\ impErr = NoErr
              /\ impAttrs[1] \o <<"/">> \o impAttrs[2] = importedId
              /\ ~HasSlash(impAttrs[1])
        /\ impPc = "rejected" => (impAttrs = <<>> /\ impErr /= NoErr)
        /\ impCfg /= <<>> =>
              /\ impPc = "imported"
              /\ ~HasSlash(impCfg[1]) => impAttrs = impCfg

C19_Witness ==
    /\ impPc = "imported"
    /\ impCfg = << <<"a">>, <<"a", "/">> >>
    /\ importedId = <<"a", "/", "a", "/">>
    /\ impAttrs = impCfg

\* The positions in alCalls of the requests with the given method.
CallsOf(method) == {i \in DOMAIN alCalls : alCalls[i][1] = method}
\* The update returned because its PUT failed.
PutFailed ==
    /\ alDiags[1] = "error"
    /\ alDiags[2][1] = "error updating AlertRule: "

\* C20: resourceAlertRuleUpdate, once it has made its client, issues at most
\* one PUT, one status POST and one GET.  Past its first step it has issued
\* the PUT exactly when an attribute other than status changed.  Past its
\* second step, unless the PUT failed, it has issued the POST exactly when
\* status changed; the POST goes to "enable" when the new status is "ENABLED"
\* and to "disable" for any other value.  The PUT comes before the POST and
\* both before the GET of Read.  If the PUT failed, neither the POST nor the
\* GET is issued and the update has returned that error; the GET is left out
\* only when the update returns an error.  Until Read has its answer
\* d.Get("status") is the new status.  An update that could not make its
\* client issues no request and returns that error.
C20_AlertUpdateCalls ==
    /\ (alPc /= "idle" /\ alClient) =>
        /\ Cardinality(CallsOf("PUT")) <= 1
        /\ Cardinality(CallsOf("POST")) <= 1
        /\ Cardinality(CallsOf("GET")) <= 1
        /\ alPc = "put" => alCalls = <<>>
        /\ alPc \in {"status", "read", "done", "panic"} =>
              (CallsOf("PUT") /= {} <=> alChanged \ {"status"} /= {})
        /\ (alPc \in {"read", "done", "panic"} /\ ~PutFailed) =>
              (CallsOf("POST") /= {} <=> "status" \in alChanged)
        /\ \A i \in CallsOf("POST") :
              alCalls[i][2] = IF alPlanned = "ENABLED" THEN "enable" ELSE "disable"
        /\ \A i \in CallsOf("PUT") : \A j \in CallsOf("POST") : i < j
        /\ \A i \in CallsOf("GET") : i = Len(alCalls) /\ alPc \in {"done", "panic"}
        /\ PutFailed =>
              /\ CallsOf("POST") = {} /\ CallsOf("GET") = {}
              /\ alPc = "done"
        /\ (alPc = "done" /\ CallsOf("GET") = {}) => alDiags[1] = "error"
        /\ CallsOf("GET") = {} => alStatus = alPlanned
    /\ (alPc /= "idle" /\ ~alClient) =>
        /\ alCalls = <<>>
        /\ alPc = "done" /\ alDiags = NoSecMasterClientDiag

C20_Witness ==
    /\ alPc = "done" /\ alDiags = <<"nil">>
    /\ alChanged = {"name", "status"} /\ alPlanned = "enabled"
    /\ alStatus = "DISABLED"
    /\ Len(alCalls) = 3
    /\ alCalls[1][1] = "PUT" /\ alCalls[2] = <<"POST", "disable">>
    /\ alCalls[3][1] = "GET"

====
